---- MODULE Spec2Model ----
(***************************************************************************)
(* Model of the queue-insights service (app/services/queue_insights.py):   *)
(* QueueInsightsService.generate_insights with its AI strategy, its        *)
(* rule-based strategy and the per-department aggregation; and of the      *)
(* routes that store observations and insights                             *)
(* (app/routers/queue_insights.py).                                        *)
(*                                                                         *)
(* Four specifications:                                                    *)
(*   Spec           one generate_insights call at a time, on any list;     *)
(*   PairSpec       two calls on the shared service, interleaved;          *)
(*   WebSpec        the create and analyze routes over the two tables;     *)
(*   SingletonSpec  get_insights_service called from the pool's threads.   *)
(*                                                                         *)
(* Representation.                                                         *)
(*  - A Python str is a sequence of pieces (TLA+ strings); concatenation   *)
(*    and "\n".join are sequence concatenation, "" is << >>.  The pieces   *)
(*    " " and "\n" are whitespace.                                         *)
(*  - A Python float obtained as int / int is the reduced fraction         *)
(*    [num, den]; for the magnitudes explored here distinct fractions are  *)
(*    distinct doubles, so float comparison is fraction comparison.        *)
(*  - observed_at is a day ordinal.                                        *)
(*  - A dict is [keys, val]: keys in insertion order, val the mapping.     *)
(*  - A database table is a bag of rows: it has no order of its own.       *)
(*  - The prompt text (_prepare_observation_summary) and the notes of an   *)
(*    observation do not influence any state modelled and are left out;    *)
(*    a department name taken from a form is a str (pieces), one given to  *)
(*    the service directly is a single piece.                              *)
(***************************************************************************)
EXTENDS Integers, Sequences, FiniteSets, Bags, TLC

\* ---------------------------------------------------------------- bounds
MaxObs == 3

Departments == {"ER", "er"}
PatientCounts == {5, 10}
WaitMinutes == {0, 90}

\* ----------------------------------------------------------- configuration
NONE == "<None>"
OPENAI_MODEL == "gpt-4o-mini"
OPENAI_MAX_TOKENS == 500
\* Values OPENAI_API_KEY can take: unset (None), set but empty, set.
ApiKeys == {NONE, "", "sk-test"}

\* `if self.api_key:` -- Python truthiness of Optional[str]
Truthy(key) == key # NONE /\ key # ""

\* ------------------------------------------------------------ arithmetic
RECURSIVE GCD(_, _)
GCD(a, b) == IF b = 0 THEN a ELSE GCD(b, a % b)

\* total / count  (true division of two non-negative ints, count > 0)
TrueDiv(total, count) ==
    LET g == GCD(total, count)
    IN  [num |-> total \div g, den |-> count \div g]

\* float comparisons a < b, a > n
FloatLess(a, b) == a.num * b.den < b.num * a.den

\* variant: a >= n
FloatAtLeastInt(a, n) == a.num >= n * a.den

FloatGreaterInt(a, n) == a.num > n * a.den

\* variant: keeps the latest value instead of the larger one
PyMax2Latest(a, b) == b

\* max(a, b) on ints
PyMax2(a, b) == IF b > a THEN b ELSE a

\* f"{x:.1f}": one decimal, round-half-to-even on the exact value
Format1f(x) ==
    LET q == (10 * x.num) \div x.den
        r == (10 * x.num) % x.den
        tenths == IF 2 * r < x.den THEN q
                  ELSE IF 2 * r > x.den THEN q + 1
                  ELSE IF q % 2 = 0 THEN q ELSE q + 1
    IN  <<ToString(tenths \div 10), ".", ToString(tenths % 10)>>

\* observed_at.strftime('%Y-%m-%d')
FormatDate(day) == <<"day-", ToString(day)>>

\* --------------------------------------------------------------- strings
IsSpace(piece) == piece \in {" ", "\n"}

RECURSIVE LStrip(_)
LStrip(s) == IF s # << >> /\ IsSpace(Head(s)) THEN LStrip(Tail(s)) ELSE s

RECURSIVE RStrip(_)
RStrip(s) ==
    IF s # << >> /\ IsSpace(s[Len(s)]) THEN RStrip(SubSeq(s, 1, Len(s) - 1)) ELSE s

\* str.strip()
Strip(s) == RStrip(LStrip(s))

\* sep.join(parts)
RECURSIVE Join(_, _)
Join(sep, parts) ==
    IF parts = << >> THEN << >>
    ELSE IF Len(parts) = 1 THEN parts[1]
    ELSE parts[1] \o sep \o Join(sep, Tail(parts))

\* ----------------------------------------------------------- observations
\* A QueueObservation as the service reads it.
Observation(dept, day, patients, wait) ==
    [department |-> dept, observed_at |-> day,
     number_of_patients |-> patients, average_wait_minutes |-> wait]

ObsCores == Departments \X PatientCounts \X WaitMinutes

\* The lists the analyze route hands to the service: newest first.
ObservationLists ==
    UNION { { [i \in 1..n |-> Observation(c[i][1], n - i + 1, c[i][2], c[i][3])] :
                c \in [1..n -> ObsCores] } : n \in 0..MaxObs }

\* ------------------------------------------------------------ aggregation
EmptyDict == [keys |-> << >>, val |-> << >>]

\* defaultdict(lambda: {...}) factory
NewDeptStats ==
    [total_patients |-> 0, total_wait |-> 0, count |-> 0, max_wait |-> 0,
     observations |-> << >>]

\* variant: groups case-insensitively
DeptKeyLower(obs) == IF obs.department = "ER" THEN "er" ELSE obs.department

\* the grouping key: obs.department, used as is
DeptKey(obs) == obs.department

\* one iteration of `for obs in observations:`
Accumulate(stats, obs) ==
    LET dept == DeptKey(obs)
        known == dept \in DOMAIN stats.val
        cur == IF known THEN stats.val[dept] ELSE NewDeptStats
        upd == [total_patients |-> cur.total_patients + obs.number_of_patients,
                total_wait |-> cur.total_wait + obs.average_wait_minutes,
                count |-> cur.count + 1,
                max_wait |-> PyMax2(cur.max_wait, obs.average_wait_minutes),
                observations |-> Append(cur.observations, obs)]
    IN  [keys |-> IF known THEN stats.keys ELSE Append(stats.keys, dept),
         val |-> [d \in (DOMAIN stats.val) \cup {dept} |->
                    IF d = dept THEN upd ELSE stats.val[d]]]

\* dept_stats after the loop over observations (upTo[n]: after n of them)
DeptStats(obsList) ==
    LET upTo[n \in 0..Len(obsList)] ==
            IF n = 0 THEN EmptyDict ELSE Accumulate(upTo[n - 1], obsList[n])
    IN  upTo[Len(obsList)]

\* one entry of dept_averages
Average(stats) ==
    [avg_patients |-> TrueDiv(stats.total_patients, stats.count),
     avg_wait |-> TrueDiv(stats.total_wait, stats.count),
     max_wait |-> stats.max_wait,
     count |-> stats.count]

\* dept_averages: same iteration order as dept_stats
DeptAverages(obsList) ==
    LET ds == DeptStats(obsList)
    IN  [keys |-> ds.keys, val |-> [d \in DOMAIN ds.val |-> Average(ds.val[d])]]

\* variant: a later item replaces the kept one also on a tie
PyMaxIndexLastWins(keyvals) ==
    LET best[n \in 1..Len(keyvals)] ==
            IF n = 1 THEN 1
            ELSE IF FloatLess(keyvals[n], keyvals[best[n - 1]]) THEN best[n - 1]
            ELSE n
    IN  best[Len(keyvals)]

\* max(iterable, key=...): index of the kept item; a later item replaces the
\* kept one only if its key is strictly greater
PyMaxIndex(keyvals) ==
    LET best[n \in 1..Len(keyvals)] ==
            IF n = 1 THEN 1
            ELSE IF FloatLess(keyvals[best[n - 1]], keyvals[n]) THEN n
            ELSE best[n - 1]
    IN  best[Len(keyvals)]

\* variant: ranks the departments by their max_wait
HighestWaitDeptByMax(avgs) ==
    avgs.keys[PyMaxIndex([i \in 1..Len(avgs.keys) |->
                            [num |-> avgs.val[avgs.keys[i]].max_wait, den |-> 1]])]

HighestWaitDept(avgs) ==
    avgs.keys[PyMaxIndex([i \in 1..Len(avgs.keys) |-> avgs.val[avgs.keys[i]].avg_wait])]

HighestVolumeDept(avgs) ==
    avgs.keys[PyMaxIndex([i \in 1..Len(avgs.keys) |-> avgs.val[avgs.keys[i]].avg_patients])]

bottleneck_threshold == 60
monitor_threshold == 30

\* [dept for dept, stats in dept_averages.items() if stats['avg_wait'] > threshold]
RECURSIVE FilterBottlenecks(_, _)
FilterBottlenecks(avgs, keys) ==
    IF keys = << >> THEN << >>
    ELSE (IF FloatGreaterInt(avgs.val[Head(keys)].avg_wait, bottleneck_threshold)
          THEN <<Head(keys)>> ELSE << >>) \o FilterBottlenecks(avgs, Tail(keys))

BottleneckDepts(avgs) == FilterBottlenecks(avgs, avgs.keys)

\* the locals of _generate_rule_based_insights the findings are built from
Analyse(obsList) ==
    LET avgs == DeptAverages(obsList)
    IN  [dept_averages |-> avgs,
         hw_dept |-> HighestWaitDept(avgs),
         hv_dept |-> HighestVolumeDept(avgs),
         bottleneck_depts |-> BottleneckDepts(avgs),
         total_obs |-> Len(obsList),
         dept_count |-> Len(avgs.keys)]

NoAnalysis ==
    [dept_averages |-> EmptyDict, hw_dept |-> "", hv_dept |-> "",
     bottleneck_depts |-> << >>, total_obs |-> 0, dept_count |-> 0]

\* --------------------------------------------------------- rule-based text
STAFFING == "staffing"
MONITORING == "monitoring"
STATUS_QUO == "status-quo"

\* variant: `>= bottleneck_threshold`
RecommendationTierFrom60(hw_avg_wait) ==
    IF hw_avg_wait.num >= bottleneck_threshold * hw_avg_wait.den THEN STAFFING
    ELSE IF FloatGreaterInt(hw_avg_wait, monitor_threshold) THEN MONITORING
    ELSE STATUS_QUO

\* variant: `>= 30`
RecommendationTierFrom30(hw_avg_wait) ==
    IF FloatGreaterInt(hw_avg_wait, bottleneck_threshold) THEN STAFFING
    ELSE IF hw_avg_wait.num >= monitor_threshold * hw_avg_wait.den THEN MONITORING
    ELSE STATUS_QUO

RecommendationTier(hw_avg_wait) ==
    IF FloatGreaterInt(hw_avg_wait, bottleneck_threshold) THEN STAFFING
    ELSE IF FloatGreaterInt(hw_avg_wait, monitor_threshold) THEN MONITORING
    ELSE STATUS_QUO

HeaderPart == <<"**Queue Insights Analysis** (Rule-Based)">>
SummaryHeadPart == <<"\n**Data Summary:**">>
FindingsHeadPart == <<"\n**Key Findings:**">>
RecommendationHeadPart == <<"\n**Recommendation:**">>
NotePart ==
    <<"\n*Note: This analysis uses rule-based heuristics. ",
      "For AI-powered insights, configure an OpenAI API key.*">>

CountPart(a) ==
    <<"- Analyzed ", ToString(a.total_obs), " observations across ",
      ToString(a.dept_count), " department(s)">>

PeriodPart(obsList) ==
    <<"- Time period: ">> \o FormatDate(obsList[Len(obsList)].observed_at)
        \o <<" to ">> \o FormatDate(obsList[1].observed_at)

Finding1Part(a) ==
    LET hw == a.dept_averages.val[a.hw_dept]
    IN  <<"1. **Longest Wait Times:** ", a.hw_dept, " has an average wait time of ">>
            \o Format1f(hw.avg_wait)
            \o <<" minutes (max: ", ToString(hw.max_wait), " minutes)">>

Finding2Part(a) ==
    LET hv == a.dept_averages.val[a.hv_dept]
    IN  <<"2. **Highest Patient Volume:** ", a.hv_dept, " averages ">>
            \o Format1f(hv.avg_patients) \o <<" patients per observation">>

Finding3Part(a) ==
    <<"3. **Potential Bottlenecks:** The following departments exceed ",
      ToString(bottleneck_threshold), " minutes average wait: ">>
        \o Join(<<", ">>, [i \in 1..Len(a.bottleneck_depts) |-> <<a.bottleneck_depts[i]>>])

RecommendationPart(a) ==
    LET tier == RecommendationTier(a.dept_averages.val[a.hw_dept].avg_wait)
    IN  IF tier = STAFFING THEN
            <<"Consider increasing staffing or adjusting scheduling for ", a.hw_dept,
              " to reduce wait times. Peak periods may benefit from additional resources.">>
        ELSE IF tier = MONITORING THEN
            <<"Monitor ", a.hw_dept, " closely as wait times are elevated. ",
              "Proactive scheduling adjustments may prevent future bottlenecks.">>
        ELSE
            <<"Current wait times are within acceptable ranges. ",
              "Continue monitoring for trends and consider preventive measures during peak hours.">>

\* variant: the bottleneck finding is appended before the volume finding
InsightPartsBottleneckFirst(obsList, a) ==
    <<HeaderPart, SummaryHeadPart, CountPart(a), PeriodPart(obsList), FindingsHeadPart,
      Finding1Part(a)>>
        \o (IF a.bottleneck_depts # << >> THEN <<Finding3Part(a)>> ELSE << >>)
        \o (IF a.hv_dept # a.hw_dept THEN <<Finding2Part(a)>> ELSE << >>)
        \o <<RecommendationHeadPart, RecommendationPart(a), NotePart>>

\* insight_parts, in the order the code appends them
InsightParts(obsList, a) ==
    <<HeaderPart, SummaryHeadPart, CountPart(a), PeriodPart(obsList), FindingsHeadPart,
      Finding1Part(a)>>
        \o (IF a.hv_dept # a.hw_dept THEN <<Finding2Part(a)>> ELSE << >>)
        \o (IF a.bottleneck_depts # << >> THEN <<Finding3Part(a)>> ELSE << >>)
        \o <<RecommendationHeadPart, RecommendationPart(a), NotePart>>

\* _generate_rule_based_insights(observations), observations non-empty
RuleBasedText(obsList) == Join(<<"\n">>, InsightParts(obsList, Analyse(obsList)))

\* ------------------------------------------------------------- AI strategy
\* What the chat-completions client can answer.  A message content is
\* [is_none, content]: `None`, or a str.
NoneContent == [is_none |-> TRUE, content |-> << >>]
StrContent(s) == [is_none |-> FALSE, content |-> s]

AIContents ==
    { << >>,
      <<" ", "\n">>,
      <<"Insight">>,
      <<"\n", "Insight", " ">>,
      <<" ", "More", " ", "staff", "\n">> }

NoResponse == [arrived |-> FALSE, choices |-> << >>]
Response(choices) == [arrived |-> TRUE, choices |-> choices]

Responses ==
    { Response(<< >>), Response(<<NoneContent>>),
      Response(<<StrContent(<<"Insight">>), StrContent(<<"Second", " ", "choice">>)>>) }
    \cup { Response(<<StrContent(c)>>) : c \in AIContents }

\* What client.chat.completions.create can raise instead of answering.
ClientErrors == {"timeout", "transport_error", "error_response"}
\* Everything the body of _generate_ai_insights can raise.
AIExceptions == ClientErrors \cup {"ImportError", "IndexError", "AttributeError"}

\* variant: `except ImportError`
CaughtOnlyImportError(exc) == exc \in {"ImportError", "Exception"}

\* `except Exception as e:` -- every exception above derives from Exception
CaughtByExcept(exc) == exc \in AIExceptions \cup {"Exception"}

\* variant: response.choices[-1]
LastChoice(choices) == choices[Len(choices)]

\* response.choices[0]
FirstChoice(choices) == choices[1]

\* ------------------------------------------------------------ result triple
RULE_BASED == "rule-based"
NoDataMessage ==
    <<"No observations available for analysis. Please add queue observations first.">>

Triple(text, is_ai, model_used) ==
    [text |-> text, is_ai_generated |-> is_ai, model_used |-> model_used]

NoResult == Triple(<< >>, FALSE, "")

\* variant: the credential is tested before the emptiness of the input
EntryBranchKeyFirst(obsList, key) ==
    IF Truthy(key) THEN "try_ai"
    ELSE IF obsList = << >> THEN "no_data"
    ELSE "fallback"

\* variant: the AI strategy is tried whether or not a credential is set
EntryBranchAlwaysAI(obsList, key) ==
    IF obsList = << >> THEN "no_data" ELSE "try_ai"

\* The branch generate_insights takes on entry.
EntryBranch(obsList, key) ==
    IF obsList = << >> THEN "no_data"
    ELSE IF Truthy(key) THEN "try_ai"
    ELSE "fallback"

\* The threads of the server's pool in which the dependency
\* get_insights_service runs, one call at a time each.
Threads == {"t1", "t2", "t3"}

\* `_insights_service = None`: no instance; instances are numbered from 1
NoService == 0

\* ------------------------------------------------------------------- state
VARIABLES
    api_key,        \* self.api_key
    model,          \* self.model
    max_tokens,     \* self.max_tokens
    pc,             \* where the current generate_insights call stands
    observations,   \* the argument of the current call
    response,       \* what the client answered in this call
    ai_error,       \* the exception the AI strategy raised in this call
    analysis,       \* the locals of the rule-based strategy in this call
    result,         \* the triple the call returns
    ai_calls,       \* invocations of _generate_ai_insights in this call
    client_requests,\* chat-completion requests sent in this call
    rule_calls,     \* invocations of _generate_rule_based_insights in this call
    parked,         \* the locals of a second generate_insights call, suspended
    db_observations,\* the committed rows of queue_observations
    db_insights,    \* the committed rows of queue_insights
    current_user,   \* the user of the analyze request in progress
    cutoff_date,    \* cutoff_date of the analyze request in progress
    http,           \* the response of the request being answered
    session_new,    \* rows added to the request's Session and not yet committed
    insights_service,\* the module global _insights_service
    thread_pc,      \* where each thread stands in get_insights_service
    thread_ret,     \* what get_insights_service last returned to each thread
    constructed     \* QueueInsightsService instances constructed so far

vars == <<api_key, model, max_tokens, pc, observations, response, ai_error,
          analysis, result, ai_calls, client_requests, rule_calls, parked,
          db_observations, db_insights, current_user, cutoff_date, http,
          session_new, insights_service, thread_pc, thread_ret, constructed>>

config == <<api_key, model, max_tokens>>

\* what the routes of app/routers/queue_insights.py read and write
web == <<db_observations, db_insights, current_user, cutoff_date, http, session_new>>

\* the dependency get_insights_service and the threads that call it
di == <<insights_service, thread_pc, thread_ret, constructed>>

\* The locals of a generate_insights call that has not started.
IdleLocals ==
    [pc |-> "idle", observations |-> << >>, response |-> NoResponse, ai_error |-> NONE,
     analysis |-> NoAnalysis, result |-> NoResult, ai_calls |-> 0, client_requests |-> 0,
     rule_calls |-> 0]

\* The locals of the generate_insights call that is running.
Locals ==
    [pc |-> pc, observations |-> observations, response |-> response,
     ai_error |-> ai_error, analysis |-> analysis, result |-> result,
     ai_calls |-> ai_calls, client_requests |-> client_requests,
     rule_calls |-> rule_calls]

\* no request has been answered / no analyze request is in progress
NoHttp == [status |-> 0, kind |-> "none", target |-> "", error |-> << >>]
NoUser == NONE

\* QueueInsightsService.__init__ ; no call in progress, empty tables
Init ==
    /\ api_key \in ApiKeys
    /\ model = OPENAI_MODEL
    /\ max_tokens = OPENAI_MAX_TOKENS
    /\ pc = "idle"
    /\ observations = << >>
    /\ response = NoResponse
    /\ ai_error = NONE
    /\ analysis = NoAnalysis
    /\ result = NoResult
    /\ ai_calls = 0
    /\ client_requests = 0
    /\ rule_calls = 0
    /\ parked = IdleLocals
    /\ db_observations = EmptyBag
    /\ db_insights = EmptyBag
    /\ current_user = NoUser
    /\ cutoff_date = 0
    /\ http = NoHttp
    /\ session_new = EmptyBag
    /\ insights_service = 1
    /\ thread_pc = [t \in Threads |-> "idle"]
    /\ thread_ret = [t \in Threads |-> NoService]
    /\ constructed = 1

\* the caller awaits generate_insights(obsList), obsList any list it may pass
Call ==
    /\ pc = "idle"
    /\ pc' = "entry"
    /\ \E obsList \in ObservationLists : observations' = obsList
    /\ UNCHANGED <<config, di, web, parked, response, ai_error, analysis, result, ai_calls,
                   client_requests, rule_calls>>

\* `if not observations: return (...)`
ReturnNoData ==
    /\ pc = "entry"
    /\ EntryBranch(observations, api_key) = "no_data"
    /\ result' = Triple(NoDataMessage, FALSE, RULE_BASED)
    /\ pc' = "returned"
    /\ UNCHANGED <<config, di, web, parked, observations, response, ai_error, analysis, ai_calls,
                   client_requests, rule_calls>>

\* `if self.api_key: try: ... await self._generate_ai_insights(observations)`
TryAI ==
    /\ pc = "entry"
    /\ EntryBranch(observations, api_key) = "try_ai"
    /\ ai_calls' = ai_calls + 1
    /\ pc' = "ai_import"
    /\ UNCHANGED <<config, di, web, parked, observations, response, ai_error, analysis, result,
                   client_requests, rule_calls>>

\* no credential: straight to the rule-based analysis
SkipAI ==
    /\ pc = "entry"
    /\ EntryBranch(observations, api_key) = "fallback"
    /\ pc' = "fallback"
    /\ UNCHANGED <<config, di, web, parked, observations, response, ai_error, analysis, result,
                   ai_calls, client_requests, rule_calls>>

\* an exception leaves _generate_ai_insights and meets the try/except
Raise(exc) ==
    /\ ai_error' = exc
    /\ pc' = IF CaughtByExcept(exc) THEN "fallback" ELSE "raised"

\* variant: a missing client library switches the AI strategy off for good
ImportFailsDisablingAI ==
    /\ pc = "ai_import"
    /\ Raise("ImportError")
    /\ api_key' = NONE
    /\ UNCHANGED <<model, max_tokens, di, web, parked, observations, response, analysis,
                   result, ai_calls, client_requests, rule_calls>>

\* `from openai import OpenAI` fails; re-raised as Exception
ImportFails ==
    /\ pc = "ai_import"
    /\ Raise("ImportError")
    /\ UNCHANGED <<config, di, web, parked, observations, response, analysis, result, ai_calls,
                   client_requests, rule_calls>>

\* import, client construction, prompt; the request is sent
SendRequest ==
    /\ pc = "ai_import"
    /\ client_requests' = client_requests + 1
    /\ pc' = "ai_call"
    /\ UNCHANGED <<config, di, web, parked, observations, response, ai_error, analysis, result,
                   ai_calls, rule_calls>>

\* client.chat.completions.create raises
ClientRaises(exc) ==
    /\ pc = "ai_call"
    /\ Raise(exc)
    /\ UNCHANGED <<config, di, web, parked, observations, response, analysis, result, ai_calls,
                   client_requests, rule_calls>>

\* client.chat.completions.create returns a response object
ClientResponds(resp) ==
    /\ pc = "ai_call"
    /\ response' = resp
    /\ pc' = "ai_extract"
    /\ UNCHANGED <<config, di, web, parked, observations, ai_error, analysis, result, ai_calls,
                   client_requests, rule_calls>>

\* `response.choices[0].message.content.strip()`, then
\* `return (insight_text, True, self.model)`
ExtractContent ==
    /\ pc = "ai_extract"
    /\ IF response.choices = << >> THEN
            Raise("IndexError") /\ UNCHANGED result
       ELSE IF FirstChoice(response.choices).is_none THEN
            Raise("AttributeError") /\ UNCHANGED result
       ELSE /\ result' = Triple(Strip(FirstChoice(response.choices).content), TRUE, model)
            /\ pc' = "returned"
            /\ UNCHANGED ai_error
    /\ UNCHANGED <<config, di, web, parked, observations, response, analysis, ai_calls,
                   client_requests, rule_calls>>

\* _generate_rule_based_insights as generate_insights sees it: max() of an
\* empty dept_averages raises ValueError, outside any try
RuleBasedOutcome(obsList) ==
    IF obsList = << >> THEN
        [pc |-> "raised", analysis |-> NoAnalysis, result |-> NoResult]
    ELSE
        [pc |-> "returned", analysis |-> Analyse(obsList),
         result |-> Triple(RuleBasedText(obsList), FALSE, RULE_BASED)]

\* `insight_text = self._generate_rule_based_insights(observations)`
\* `return (insight_text, False, "rule-based")`
RuleBased ==
    /\ pc = "fallback"
    /\ rule_calls' = rule_calls + 1
    /\ LET out == RuleBasedOutcome(observations)
       IN  /\ pc' = out.pc
           /\ analysis' = out.analysis
           /\ result' = out.result
    /\ UNCHANGED <<config, di, web, parked, observations, response, ai_error, ai_calls, client_requests>>

\* the locals of a call that is over are dropped
DropLocals ==
    /\ pc' = "idle"
    /\ observations' = << >>
    /\ response' = NoResponse
    /\ ai_error' = NONE
    /\ analysis' = NoAnalysis
    /\ result' = NoResult
    /\ ai_calls' = 0
    /\ client_requests' = 0
    /\ rule_calls' = 0

\* the call is over: the caller has the triple (or the exception)
Return ==
    /\ pc \in {"returned", "raised"}
    /\ DropLocals
    /\ UNCHANGED <<config, di, web, parked>>

\* the steps generate_insights takes by itself
ServiceStep ==
    ReturnNoData \/ TryAI \/ SkipAI \/ ImportFails \/ SendRequest \/ ExtractContent
        \/ RuleBased

\* the steps that are the chat-completions client's to take
ClientStep ==
    \/ \E exc \in ClientErrors : ClientRaises(exc)
    \/ \E resp \in Responses : ClientResponds(resp)

Next ==
    \/ Call
    \/ ServiceStep
    \/ ClientStep
    \/ Return

Spec == Init /\ [][Next]_vars

\* ------------------------------------------------- two calls, interleaved
\* The service instance is shared by all requests; a second call of
\* generate_insights can be in progress.  Its locals are `parked` while the
\* other call runs, and control can pass from one call to the other between
\* any two steps.
locals == <<pc, observations, response, ai_error, analysis, result, ai_calls,
            client_requests, rule_calls>>

\* the lists of the interleaved calls: empty, or one observation
ShortLists == {<< >>} \cup {<<Observation(c[1], 1, c[2], c[3])>> : c \in ObsCores}

CallShort == Call /\ observations' \in ShortLists

\* the running call is suspended and the other one resumes with its own locals
Switch ==
    /\ parked' = Locals
    /\ pc' = parked.pc
    /\ observations' = parked.observations
    /\ response' = parked.response
    /\ ai_error' = parked.ai_error
    /\ analysis' = parked.analysis
    /\ result' = parked.result
    /\ ai_calls' = parked.ai_calls
    /\ client_requests' = parked.client_requests
    /\ rule_calls' = parked.rule_calls
    /\ UNCHANGED <<config, di, web>>

PairNext ==
    \/ CallShort
    \/ ServiceStep
    \/ ClientStep
    \/ Return
    \/ Switch

PairSpec == Init /\ [][PairNext]_vars

\* ------------------------------------------------------------- the routes
\* app/routers/queue_insights.py: the create-observation route and the
\* analyze route, over the two tables.  One request is handled at a time:
\* `http` is the response the handler returns, until it has been sent.
\* A datetime is a day ordinal; the Form str values are sequences of pieces.
MaxRows == 2
MaxInsights == 1

Users == {"alice", "bob"}
\* datetime.now(timezone.utc), in days
Today == 40
ObservedDays == {10, 38}
DepartmentInputs == {<< >>, <<" ">>, <<" ", "ER", "\n">>}
ObservedAtInputs == {FormatDate(d) : d \in ObservedDays} \cup {<<"yesterday">>}
PatientInputs == {-1, 0}
WaitInputs == {-1, 90}
DaysBackInputs == {0, 30, 400}

HTTP_303_SEE_OTHER == 303
HTTP_400_BAD_REQUEST == 400
HTTP_422_UNPROCESSABLE_ENTITY == 422
HTTP_500_INTERNAL_SERVER_ERROR == 500

RedirectResponse(url) ==
    [status |-> HTTP_303_SEE_OTHER, kind |-> "redirect", target |-> url, error |-> << >>]
\* templates.TemplateResponse(name, {"error": ..., "form_data": ...}, status_code=...)
TemplateResponse(name, status_code, error, form_data) ==
    [status |-> status_code, kind |-> "template", target |-> name, error |-> error,
     form_data |-> form_data]
\* the framework's answer to a request whose required field is missing
ValidationErrorResponse ==
    [status |-> HTTP_422_UNPROCESSABLE_ENTITY, kind |-> "json", target |-> "",
     error |-> <<"Field required">>]

\* `department: str = Form(...)`: an empty form value counts as missing
FormFieldMissing(value) == value = << >>

\* datetime.fromisoformat(observed_at): the datetime, or ValueError
FromIsoFormat(text) ==
    IF \E d \in ObservedDays : FormatDate(d) = text
    THEN [ok |-> TRUE, value |-> CHOOSE d \in ObservedDays : FormatDate(d) = text]
    ELSE [ok |-> FALSE, value |-> 0]

\* variant: only the patient count is validated
CreateValueErrorPatientsOnly(observed_at, number_of_patients, average_wait_minutes) ==
    IF ~FromIsoFormat(observed_at).ok THEN <<"Invalid isoformat string">>
    ELSE IF number_of_patients < 0 THEN <<"Number of patients cannot be negative">>
    ELSE << >>

\* str(e) of the ValueError the try block raises before any row is built,
\* << >> if it raises none
CreateValueError(observed_at, number_of_patients, average_wait_minutes) ==
    IF ~FromIsoFormat(observed_at).ok THEN <<"Invalid isoformat string">>
    ELSE IF number_of_patients < 0 THEN <<"Number of patients cannot be negative">>
    ELSE IF average_wait_minutes < 0 THEN <<"Average wait time cannot be negative">>
    ELSE << >>

\* QueueObservation(user_id=..., department=..., ...)
QueueObservationRow(user, department, observed_at, number_of_patients, average_wait_minutes) ==
    [user_id |-> user, department |-> department, observed_at |-> observed_at,
     number_of_patients |-> number_of_patients,
     average_wait_minutes |-> average_wait_minutes]

\* POST /queue-insights/new
queue_insights_create ==
    /\ pc = "idle"
    /\ http = NoHttp
    /\ BagCardinality(db_observations) < MaxRows
    /\ \E user \in Users, department \in DepartmentInputs,
          observed_at \in ObservedAtInputs, number_of_patients \in PatientInputs,
          average_wait_minutes \in WaitInputs, commit_ok \in BOOLEAN :
          LET error == CreateValueError(observed_at, number_of_patients,
                                        average_wait_minutes)
              form_data ==
                  [department |-> department, observed_at |-> observed_at,
                   number_of_patients |-> number_of_patients,
                   average_wait_minutes |-> average_wait_minutes]
              observation ==
                  QueueObservationRow(user, Strip(department),
                                      FromIsoFormat(observed_at).value,
                                      number_of_patients, average_wait_minutes)
          IN  IF FormFieldMissing(department) THEN
                  /\ http' = ValidationErrorResponse
                  /\ UNCHANGED db_observations
              ELSE IF error # << >> THEN
                  /\ http' = TemplateResponse("queue_form.html", HTTP_400_BAD_REQUEST,
                                              error, form_data)
                  /\ UNCHANGED db_observations
              ELSE IF ~commit_ok THEN
                  /\ http' = TemplateResponse("queue_form.html",
                                              HTTP_500_INTERNAL_SERVER_ERROR,
                                              <<"Failed to create observation: ">>,
                                              form_data)
                  /\ UNCHANGED db_observations
              ELSE
                  /\ db_observations' = db_observations (+) SetToBag({observation})
                  /\ http' = RedirectResponse("/queue-insights?success=observation_created")
    /\ UNCHANGED <<config, di, locals, parked, db_insights, current_user, cutoff_date,
                   session_new>>

DAYS_BACK_MIN == 1
DAYS_BACK_MAX == 365
DAYS_BACK_DEFAULT == 7

\* `if days_back < 1 or days_back > 365: days_back = 7`
EffectiveDaysBack(days_back) ==
    IF days_back < DAYS_BACK_MIN \/ days_back > DAYS_BACK_MAX THEN DAYS_BACK_DEFAULT
    ELSE days_back

\* cutoff_date = datetime.now(timezone.utc) - timedelta(days=days_back)
CutoffDate(days_back) == Today - EffectiveDaysBack(days_back)

\* variant: the rows of every user are selected
MatchesFilterAnyUser(row, user, cutoff) == row.observed_at >= cutoff

\* .filter(QueueObservation.user_id == current_user.id,
\*         QueueObservation.observed_at >= cutoff_date)
MatchesFilter(row, user, cutoff) == row.user_id = user /\ row.observed_at >= cutoff

\* the rows of the table the filter keeps
Filtered(rows, user, cutoff) ==
    [row \in {r \in BagToSet(rows) : MatchesFilter(r, user, cutoff)} |-> rows[row]]

Occurrences(list, row) == Cardinality({i \in 1..Len(list) : list[i] = row})

\* .order_by(desc(QueueObservation.observed_at)).all(): the lists the
\* database may answer with, rows of equal observed_at in either order
OrderByDesc(rows) ==
    LET n == BagCardinality(rows)
    IN  {list \in [1..n -> BagToSet(rows)] :
            /\ \A row \in BagToSet(rows) : Occurrences(list, row) = CopiesIn(row, rows)
            /\ \A i, j \in 1..n : i < j => list[i].observed_at >= list[j].observed_at}

QueryObservations(rows, user, cutoff) == OrderByDesc(Filtered(rows, user, cutoff))

\* variant: the range runs from the first row to the last
QueueInsightRowFirstToLast(user, triple, obsList) ==
    [user_id |-> user,
     insight_text |-> triple.text,
     is_ai_generated |-> triple.is_ai_generated,
     observation_count |-> Len(obsList),
     date_range_start |-> obsList[1].observed_at,
     date_range_end |-> obsList[Len(obsList)].observed_at,
     model_used |-> triple.model_used]

\* QueueInsight(user_id=current_user.id, insight_text=..., ...) with the
\* date range of lines 252-253
QueueInsightRow(user, triple, obsList) ==
    [user_id |-> user,
     insight_text |-> triple.text,
     is_ai_generated |-> triple.is_ai_generated,
     observation_count |-> Len(obsList),
     date_range_start |-> IF obsList # << >> THEN obsList[Len(obsList)].observed_at ELSE 0,
     date_range_end |-> IF obsList # << >> THEN obsList[1].observed_at ELSE 0,
     model_used |-> triple.model_used]

\* What db.query(...).all() and db.commit() can raise.
DatabaseErrors == {"OperationalError", "IntegrityError"}

\* variant: `except ValueError`, the first clause of the create route
RouteCatchesValueError(exc) == exc = "ValueError"

\* `except Exception as e:` of the analyze route -- the database errors and
\* everything generate_insights can raise derive from Exception
RouteCatches(exc) ==
    exc \in DatabaseErrors \cup AIExceptions \cup {"ValueError", "Exception"}

\* db.rollback(): the session forgets what was added and not committed
Rollback(pending) == EmptyBag

\* what the client gets when an exception leaves the route function
UnhandledError(exc) ==
    [status |-> HTTP_500_INTERNAL_SERVER_ERROR, kind |-> "unhandled",
     target |-> "", error |-> <<exc>>]

\* exc raised inside the try block of queue_insights_analyze meets
\* `except Exception`: rollback and redirect, or the exception leaves the route
AnalyzeExcept(exc) ==
    IF RouteCatches(exc) THEN
        /\ session_new' = Rollback(session_new)
        /\ http' = RedirectResponse("/queue-insights?error=insight_generation_failed")
    ELSE
        /\ UNCHANGED session_new
        /\ http' = UnhandledError(exc)

\* POST /queue-insights/analyze, up to `await insights_service.generate_insights`
queue_insights_analyze ==
    /\ pc = "idle"
    /\ http = NoHttp
    /\ BagCardinality(db_insights) < MaxInsights
    /\ \E user \in Users, days_back \in DaysBackInputs,
          query \in {"ok"} \cup DatabaseErrors :
          LET cutoff == CutoffDate(days_back)
          IN  IF query # "ok" THEN
                  /\ AnalyzeExcept(query)
                  /\ UNCHANGED <<pc, observations, current_user, cutoff_date>>
              ELSE
                  \E obsList \in QueryObservations(db_observations, user, cutoff) :
                      IF obsList = << >> THEN
                          /\ http' = RedirectResponse("/queue-insights?error=no_observations")
                          /\ UNCHANGED <<pc, observations, current_user, cutoff_date,
                                         session_new>>
                      ELSE
                          /\ pc' = "entry"
                          /\ observations' = obsList
                          /\ current_user' = user
                          /\ cutoff_date' = cutoff
                          /\ http' = NoHttp
                          /\ UNCHANGED session_new
    /\ UNCHANGED <<config, di, parked, db_observations, db_insights,
                   response, ai_error, analysis, result, ai_calls, client_requests,
                   rule_calls>>

\* POST /queue-insights/analyze, from the return of generate_insights to
\* `db.add(insight)`; an exception of the service meets the except clause
queue_insights_analyze_resume ==
    /\ pc \in {"returned", "raised"}
    /\ current_user # NoUser
    /\ session_new = EmptyBag
    /\ IF pc = "returned" THEN
           /\ session_new' = SetToBag({QueueInsightRow(current_user, result, observations)})
           /\ UNCHANGED <<locals, current_user, cutoff_date, http>>
       ELSE
           /\ AnalyzeExcept(ai_error)
           /\ DropLocals
           /\ current_user' = NoUser
           /\ cutoff_date' = 0
    /\ UNCHANGED <<config, di, parked, db_observations, db_insights>>

\* POST /queue-insights/analyze, `db.commit()` to the return: the insight is
\* stored and the success redirect returned, or the except clause runs
queue_insights_analyze_commit ==
    /\ session_new # EmptyBag
    /\ \E commit \in {"ok"} \cup DatabaseErrors :
          IF commit = "ok" THEN
              /\ db_insights' = db_insights (+) session_new
              /\ session_new' = EmptyBag
              /\ http' = RedirectResponse("/queue-insights?success=insight_generated")
          ELSE
              /\ UNCHANGED db_insights
              /\ AnalyzeExcept(commit)
    /\ DropLocals
    /\ current_user' = NoUser
    /\ cutoff_date' = 0
    /\ UNCHANGED <<config, di, parked, db_observations>>

\* `return RedirectResponse(...)` / `return templates.TemplateResponse(...)`:
\* the response goes to the client and the request is over
SendResponse ==
    /\ http # NoHttp
    /\ http' = NoHttp
    /\ UNCHANGED <<config, di, locals, parked, db_observations, db_insights, current_user,
                   cutoff_date, session_new>>

\* The steps of generate_insights when the analyze route calls it: the list
\* is never empty there, so the no-data return is not among them.
RouteServiceStep ==
    TryAI \/ SkipAI \/ ImportFails \/ SendRequest \/ ExtractContent \/ RuleBased

WebNext ==
    \/ queue_insights_create
    \/ queue_insights_analyze
    \/ RouteServiceStep
    \/ ClientStep
    \/ queue_insights_analyze_resume
    \/ queue_insights_analyze_commit
    \/ SendResponse

WebSpec == Init /\ [][WebNext]_vars

\* ------------------------------------------------- the service dependency
\* get_insights_service is a plain `def` dependency: the server runs each
\* call of it in a thread of its pool, so calls of concurrent requests
\* interleave statement by statement.  An instance is named by its number
\* in the order of construction.

\* The module has just been imported: `_insights_service = None`, and no
\* QueueInsightsService exists yet.
SingletonInit ==
    /\ api_key \in ApiKeys
    /\ model = OPENAI_MODEL
    /\ max_tokens = OPENAI_MAX_TOKENS
    /\ pc = "idle"
    /\ observations = << >>
    /\ response = NoResponse
    /\ ai_error = NONE
    /\ analysis = NoAnalysis
    /\ result = NoResult
    /\ ai_calls = 0
    /\ client_requests = 0
    /\ rule_calls = 0
    /\ parked = IdleLocals
    /\ db_observations = EmptyBag
    /\ db_insights = EmptyBag
    /\ current_user = NoUser
    /\ cutoff_date = 0
    /\ http = NoHttp
    /\ session_new = EmptyBag
    /\ insights_service = NoService
    /\ thread_pc = [t \in Threads |-> "idle"]
    /\ thread_ret = [t \in Threads |-> NoService]
    /\ constructed = 0

\* thread t enters get_insights_service and evaluates
\* `if _insights_service is None:`
get_insights_service(t) ==
    /\ thread_pc[t] = "idle"
    /\ thread_pc' = [thread_pc EXCEPT ![t] =
                        IF insights_service = NoService THEN "construct" ELSE "return"]
    /\ UNCHANGED <<config, locals, parked, web, insights_service, thread_ret, constructed>>

\* `_insights_service = QueueInsightsService()`
ConstructService(t) ==
    /\ thread_pc[t] = "construct"
    /\ constructed' = constructed + 1
    /\ insights_service' = constructed + 1
    /\ thread_pc' = [thread_pc EXCEPT ![t] = "return"]
    /\ UNCHANGED <<config, locals, parked, web, thread_ret>>

\* `return _insights_service`: the global is read again
ReturnService(t) ==
    /\ thread_pc[t] = "return"
    /\ thread_ret' = [thread_ret EXCEPT ![t] = insights_service]
    /\ thread_pc' = [thread_pc EXCEPT ![t] = "idle"]
    /\ UNCHANGED <<config, locals, parked, web, insights_service, constructed>>

SingletonNext ==
    \E t \in Threads :
        \/ get_insights_service(t)
        \/ ConstructService(t)
        \/ ReturnService(t)

SingletonSpec == SingletonInit /\ [][SingletonNext]_vars

\* ======================================================= claims: helpers
\* Reference definitions, stated over the input list alone.
CallInProgress == pc # "idle"
Returned == pc = "returned"
RuleBasedRan == pc = "returned" /\ rule_calls = 1

DeptsOf(obsList) == {obsList[i].department : i \in 1..Len(obsList)}
IndicesOf(obsList, d) == {i \in 1..Len(obsList) : obsList[i].department = d}
FirstIndexOf(obsList, d) ==
    CHOOSE i \in IndicesOf(obsList, d) : \A j \in IndicesOf(obsList, d) : i <= j

RECURSIVE SumPatients(_, _)
SumPatients(obsList, S) ==
    IF S = {} THEN 0
    ELSE LET i == CHOOSE x \in S : TRUE
         IN  obsList[i].number_of_patients + SumPatients(obsList, S \ {i})

RECURSIVE SumWaits(_, _)
SumWaits(obsList, S) ==
    IF S = {} THEN 0
    ELSE LET i == CHOOSE x \in S : TRUE
         IN  obsList[i].average_wait_minutes + SumWaits(obsList, S \ {i})

RECURSIVE SumCounts(_, _)
SumCounts(val, D) ==
    IF D = {} THEN 0
    ELSE LET d == CHOOSE x \in D : TRUE
         IN  val[d].count + SumCounts(val, D \ {d})

\* mean wait of d >= mean wait of e, by cross-multiplication
MeanWaitGE(obsList, d, e) ==
    SumWaits(obsList, IndicesOf(obsList, d)) * Cardinality(IndicesOf(obsList, e))
        >= SumWaits(obsList, IndicesOf(obsList, e)) * Cardinality(IndicesOf(obsList, d))

MeanPatientsGE(obsList, d, e) ==
    SumPatients(obsList, IndicesOf(obsList, d)) * Cardinality(IndicesOf(obsList, e))
        >= SumPatients(obsList, IndicesOf(obsList, e)) * Cardinality(IndicesOf(obsList, d))

AllSpace(s) == \A i \in 1..Len(s) : IsSpace(s[i])

\* t is s without its leading and trailing whitespace
IsTrimOf(t, s) ==
    /\ t = << >> \/ (~IsSpace(t[1]) /\ ~IsSpace(t[Len(t)]))
    /\ \E i \in 1..(Len(s) + 1) :
          /\ i + Len(t) - 1 <= Len(s)
          /\ t = SubSeq(s, i, i + Len(t) - 1)
          /\ AllSpace(SubSeq(s, 1, i - 1))
          /\ AllSpace(SubSeq(s, i + Len(t), Len(s)))

Injections(n) == {p \in [1..n -> 1..n] : \A i, j \in 1..n : p[i] = p[j] => i = j}
Permuted(obsList, p) == [i \in 1..Len(obsList) |-> obsList[p[i]]]

\* the AI strategy ran to its return statement in this call
AICompleted == ai_calls = 1 /\ response.arrived /\ ai_error = NONE

\* the client failed in one of the ways the fallback contract lists
BlankContent ==
    /\ response.arrived
    /\ response.choices # << >>
    /\ ~response.choices[1].is_none
    /\ AllSpace(response.choices[1].content)

ListedAIFailure ==
    \/ ai_error \in ClientErrors \cup {"ImportError"}
    \/ BlankContent

\* ================================================================= claims

\* C1: for a non-empty list of well-formed observations generate_insights
\* never lets an exception escape, whatever the AI strategy does: a call
\* that ended has returned a triple.
C1_NeverRaises ==
    (CallInProgress /\ observations # << >>) =>
        /\ pc # "raised"
        /\ Returned => result.model_used \in {model, RULE_BASED}

\* C1 witness: the AI strategy raised and the call still returned.
C1_Witness == Returned /\ observations # << >> /\ ai_error = "AttributeError"

\* C2 (as stated): the returned text is non-empty, and model_used is the
\* configured model when is_ai_generated, "rule-based" when not.
C2_NonEmptyTextAndModel ==
    (Returned /\ observations # << >>) =>
        /\ result.text # << >>
        /\ result.is_ai_generated => result.model_used = model
        /\ ~result.is_ai_generated => result.model_used = RULE_BASED

\* C3 (as stated): with a credential, a listed AI failure yields exactly the
\* rule-based triple for the same input.
C3_FailureEqualsRuleBased ==
    (Returned /\ Truthy(api_key) /\ observations # << >> /\ ListedAIFailure) =>
        result = Triple(RuleBasedText(observations), FALSE, RULE_BASED)

\* C4: on an empty list the call goes from entry straight to returning the
\* no-data triple: no AI attempt, no request, no aggregation.
C4_EmptyInput ==
    (CallInProgress /\ observations = << >>) =>
        /\ pc \in {"entry", "returned"}
        /\ ai_calls = 0 /\ client_requests = 0 /\ rule_calls = 0
        /\ analysis = NoAnalysis
        /\ Returned => result = Triple(NoDataMessage, FALSE, RULE_BASED)

\* C4 witness: an empty-input call returned although a credential is set.
C4_Witness == Returned /\ observations = << >> /\ Truthy(api_key)

\* C5: per call the AI strategy runs at most once and only with a credential
\* and a non-empty list, at most one request is sent, the rule-based
\* strategy runs at most once, and without a credential the call goes
\* straight to the rule-based strategy.
C5_AtMostOnce ==
    /\ ai_calls <= 1 /\ rule_calls <= 1 /\ client_requests <= ai_calls
    /\ ai_calls = 1 => Truthy(api_key) /\ observations # << >>
    /\ (CallInProgress /\ pc # "entry" /\ ~Truthy(api_key) /\ observations # << >>) =>
            ai_calls = 0 /\ pc \in {"fallback", "returned"}
    /\ (Returned /\ observations # << >>) =>
            rule_calls = (IF result.is_ai_generated THEN 0 ELSE 1)

\* C5 witness: one AI attempt failed and one fallback followed.
C5_Witness == Returned /\ ai_calls = 1 /\ client_requests = 1 /\ rule_calls = 1

\* C6 (as stated): the AI call is bounded by a timeout of the service's own:
\* while a call waits for the AI service to answer, generate_insights has a
\* step it can take by itself (the timeout, handled like any AI failure),
\* so it returns even if the service never answers.
C6_WaitIsBounded == pc = "ai_call" => ENABLED ServiceStep

C8_AggregationExact ==
    RuleBasedRan =>
        LET avgs == analysis.dept_averages
            depts == DeptsOf(observations)
        IN  /\ DOMAIN avgs.val = depts
            /\ Len(avgs.keys) = Cardinality(depts)
            /\ {avgs.keys[i] : i \in 1..Len(avgs.keys)} = depts
            /\ \A d \in depts :
                  LET S == IndicesOf(observations, d)
                      e == avgs.val[d]
                  IN  /\ e.count = Cardinality(S)
                      /\ e.avg_patients.num * e.count
                            = SumPatients(observations, S) * e.avg_patients.den
                      /\ e.avg_patients.den > 0
                      /\ e.avg_wait.num * e.count
                            = SumWaits(observations, S) * e.avg_wait.den
                      /\ e.avg_wait.den > 0
                      /\ \E i \in S : observations[i].average_wait_minutes = e.max_wait
                      /\ \A i \in S : observations[i].average_wait_minutes <= e.max_wait
            /\ SumCounts(avgs.val, depts) = Len(observations)

\* C8 witness: two departments differing only in case, one of them with
\* two observations of different waits.
C8_Witness ==
    /\ RuleBasedRan
    /\ DeptsOf(observations) = {"ER", "er"}
    /\ analysis.dept_averages.val["ER"].count = 2
    /\ analysis.dept_averages.val["ER"].max_wait = 90
    /\ analysis.dept_averages.val["ER"].avg_wait = [num |-> 45, den |-> 1]

\* C9: the per-department statistics the call computed are those of every
\* permutation of its input.
C9_OrderInvariant ==
    RuleBasedRan =>
        \A p \in Injections(Len(observations)) :
            DeptAverages(Permuted(observations, p)).val = analysis.dept_averages.val

\* C9 witness: a list whose reversal changes the iteration order of the
\* departments.
C9_Witness ==
    /\ RuleBasedRan /\ Len(observations) = MaxObs
    /\ observations[1].department # observations[MaxObs].department
    /\ observations[1].average_wait_minutes # observations[2].average_wait_minutes

\* C10: the highest-wait department has a maximal mean wait and, among the
\* departments tied for it, the earliest first observation; likewise the
\* highest-volume department over the mean patient count.
C10_ArgmaxFirstWins ==
    RuleBasedRan =>
        LET depts == DeptsOf(observations)
            hw == analysis.hw_dept
            hv == analysis.hv_dept
        IN  /\ hw \in depts /\ hv \in depts
            /\ \A d \in depts :
                  /\ MeanWaitGE(observations, hw, d)
                  /\ MeanWaitGE(observations, d, hw) =>
                        FirstIndexOf(observations, hw) <= FirstIndexOf(observations, d)
            /\ \A d \in depts :
                  /\ MeanPatientsGE(observations, hv, d)
                  /\ MeanPatientsGE(observations, d, hv) =>
                        FirstIndexOf(observations, hv) <= FirstIndexOf(observations, d)

\* C10 witness: two departments tied on mean wait, the first-seen one
\* selected, while the other has the higher volume.
C10_Witness ==
    /\ RuleBasedRan
    /\ Cardinality(DeptsOf(observations)) = 2
    /\ \A d, e \in DeptsOf(observations) : MeanWaitGE(observations, d, e)
    /\ analysis.hw_dept = observations[1].department
    /\ analysis.hv_dept # analysis.hw_dept

\* ------------------------------------------ reading the rule-based text
Pieces(s) == {s[i] : i \in 1..Len(s)}
PositionsOf(s, piece) == {i \in 1..Len(s) : s[i] = piece}
\* where the piece stands in s, when it stands there once
PosOf(s, piece) == CHOOSE i \in PositionsOf(s, piece) : TRUE

HeaderLead == "**Queue Insights Analysis** (Rule-Based)"
SummaryLead == "\n**Data Summary:**"
Finding1Lead == "1. **Longest Wait Times:** "
Finding2Lead == "2. **Highest Patient Volume:** "
Finding3Lead == "3. **Potential Bottlenecks:** The following departments exceed "
RecommendationLead == "\n**Recommendation:**"
StaffingLead == "Consider increasing staffing or adjusting scheduling for "
MonitoringLead == "Monitor "
StatusQuoLead == "Current wait times are within acceptable ranges. "
NoteLead == "\n*Note: This analysis uses rule-based heuristics. "

RecommendationLeads == {StaffingLead, MonitoringLead, StatusQuoLead}

\* the mean wait of department d compared with n minutes, over the input
MeanWaitAbove(obsList, d, n) ==
    SumWaits(obsList, IndicesOf(obsList, d)) > n * Cardinality(IndicesOf(obsList, d))
MeanWaitIs(obsList, d, n) ==
    SumWaits(obsList, IndicesOf(obsList, d)) = n * Cardinality(IndicesOf(obsList, d))

\* C11: bottleneck_departments lists, each once and in the order of their
\* first observation, exactly the departments whose mean wait is strictly
\* above 60; a mean of exactly 60 does not qualify, and without a qualifying
\* department the text has no bottleneck finding.
C11_BottlenecksStrict ==
    RuleBasedRan =>
        LET b == analysis.bottleneck_depts
            over == {d \in DeptsOf(observations) : MeanWaitAbove(observations, d, 60)}
        IN  /\ {b[i] : i \in 1..Len(b)} = over
            /\ Len(b) = Cardinality(over)
            /\ \A i, j \in 1..Len(b) :
                  i < j => FirstIndexOf(observations, b[i]) < FirstIndexOf(observations, b[j])
            /\ over = {} => Finding3Lead \notin Pieces(result.text)

\* C11 witness: a department whose mean wait is exactly 60 and no
\* bottleneck listed.
C11_Witness ==
    /\ RuleBasedRan
    /\ \E d \in DeptsOf(observations) : MeanWaitIs(observations, d, 60)
    /\ analysis.bottleneck_depts = << >>
    /\ Finding3Lead \notin Pieces(result.text)

\* C12: the rule-based text carries exactly one of the three recommendation
\* templates, selected by the mean wait of the highest-wait department:
\* staffing above 60, monitoring above 30 and up to 60 (60 included),
\* status-quo up to 30.
C12_OneRecommendation ==
    RuleBasedRan =>
        LET hw == analysis.hw_dept
            expected == IF MeanWaitAbove(observations, hw, 60) THEN StaffingLead
                        ELSE IF MeanWaitAbove(observations, hw, 30) THEN MonitoringLead
                        ELSE StatusQuoLead
        IN  /\ Pieces(result.text) \cap RecommendationLeads = {expected}
            /\ Cardinality(PositionsOf(result.text, expected)) = 1
            /\ result.text[PosOf(result.text, RecommendationLead) + 1] = "\n"
            /\ PosOf(result.text, expected) = PosOf(result.text, RecommendationLead) + 2

\* C12 witness: the highest mean wait is exactly 60 and the monitoring
\* template was emitted.
C12_Witness ==
    /\ RuleBasedRan
    /\ MeanWaitIs(observations, analysis.hw_dept, 60)
    /\ MonitoringLead \in Pieces(result.text)

\* C13 (as stated): a highest mean wait of exactly 30 yields the monitoring
\* recommendation.
C13_Exactly30Monitoring ==
    (RuleBasedRan /\ MeanWaitIs(observations, analysis.hw_dept, 30)) =>
        MonitoringLead \in Pieces(result.text)

\* C13 (amended): a highest mean wait of exactly 30 yields the status-quo
\* recommendation; the monitoring recommendation needs a mean strictly
\* above 30.
C13_Exactly30StatusQuo ==
    (RuleBasedRan /\ MeanWaitIs(observations, analysis.hw_dept, 30)) =>
        /\ StatusQuoLead \in Pieces(result.text)
        /\ MonitoringLead \notin Pieces(result.text)

\* C13 witness: the rule-based strategy ran on a highest mean wait of
\* exactly 30.
C13_Witness ==
    /\ RuleBasedRan
    /\ MeanWaitIs(observations, analysis.hw_dept, 30)
    /\ Len(observations) = 3

\* C14: the sections stand in the order header, data summary, Finding 1,
\* Finding 2, Finding 3, recommendation, disclaimer, each at most once;
\* Finding 1 always, Finding 2 exactly when the highest-volume department
\* is not the highest-wait one, Finding 3 exactly when there is a bottleneck.
C14_SectionOrder ==
    RuleBasedRan =>
        LET t == result.text
            has(lead) == lead \in Pieces(t)
            at(lead) == PosOf(t, lead)
            always == <<HeaderLead, SummaryLead, Finding1Lead, RecommendationLead, NoteLead>>
        IN  /\ \A lead \in {HeaderLead, SummaryLead, Finding1Lead, Finding2Lead,
                            Finding3Lead, RecommendationLead, NoteLead} :
                  Cardinality(PositionsOf(t, lead)) <= 1
            /\ \A i \in 1..Len(always) : has(always[i])
            /\ \A i \in 1..(Len(always) - 1) : at(always[i]) < at(always[i + 1])
            /\ at(HeaderLead) = 1
            /\ at(NoteLead) = Len(t) - 1
            /\ has(Finding2Lead) <=> analysis.hv_dept # analysis.hw_dept
            /\ has(Finding3Lead) <=> analysis.bottleneck_depts # << >>
            /\ has(Finding2Lead) =>
                  at(Finding1Lead) < at(Finding2Lead) /\ at(Finding2Lead) < at(RecommendationLead)
            /\ has(Finding3Lead) =>
                  at(Finding1Lead) < at(Finding3Lead) /\ at(Finding3Lead) < at(RecommendationLead)
            /\ (has(Finding2Lead) /\ has(Finding3Lead)) => at(Finding2Lead) < at(Finding3Lead)

\* C14 witness: a text with all three findings.
C14_Witness ==
    /\ RuleBasedRan
    /\ Finding2Lead \in Pieces(result.text)
    /\ Finding3Lead \in Pieces(result.text)

\* ------------------------------------------------ two calls, the routes
\* What a call returns when it runs alone on obsList and the AI strategy,
\* if tried, ends as resp / err record.
AloneResult(obsList, resp, err) ==
    IF obsList = << >> THEN Triple(NoDataMessage, FALSE, RULE_BASED)
    ELSE IF /\ Truthy(api_key) /\ err = NONE /\ resp.arrived
            /\ resp.choices # << >> /\ ~resp.choices[1].is_none
         THEN Triple(Strip(resp.choices[1].content), TRUE, model)
    ELSE Triple(RuleBasedText(obsList), FALSE, RULE_BASED)

ReturnedAlone(frame) ==
    frame.pc = "returned" =>
        frame.result = AloneResult(frame.observations, frame.response, frame.ai_error)

\* C15: no step of a call changes the configuration of the shared service,
\* the list the call was given, or the locals of the other call; and each
\* of two interleaved calls returns what it would return alone on its own
\* list with its own AI outcome.
C15_Stateless ==
    [][ /\ config' = config
        /\ parked' = parked =>
              ((pc # "idle" /\ pc' # "idle") => observations' = observations)
        /\ parked' # parked => (parked' = Locals /\ Locals' = parked)
        /\ ReturnedAlone(Locals')
        /\ ReturnedAlone(parked') ]_vars

\* C15 witness: two calls in progress at once returned different kinds of
\* result for different lists.
C15_Witness ==
    /\ pc = "returned" /\ parked.pc = "returned"
    /\ observations # << >> /\ parked.observations # << >>
    /\ observations # parked.observations
    /\ result.is_ai_generated /\ ~parked.result.is_ai_generated
    /\ parked.ai_error = "timeout"

SuccessTarget == "/queue-insights?success=insight_generated"
AnalyzeInProgress == current_user # NoUser

\* C16: the list the analyze route hands to generate_insights is an
\* arrangement, newest first, of exactly the rows of the requesting user
\* whose observed_at is within the window (at most 365 days); the rows of
\* other users are not in it and do not alter it; the insight then stored
\* carries the requesting user's id.
C16_UserScoped ==
    [][ /\ AnalyzeInProgress' =>
              LET obsList == observations'
                  mine(row) == row.user_id = current_user' /\ row.observed_at >= cutoff_date'
              IN  /\ obsList # << >>
                  /\ Today - cutoff_date' \in 1..365
                  /\ \A i \in 1..Len(obsList) :
                        mine(obsList[i]) /\ BagIn(obsList[i], db_observations')
                  /\ \A row \in BagToSet(db_observations') :
                        mine(row) => Occurrences(obsList, row) = CopiesIn(row, db_observations')
                  /\ \A i, j \in 1..Len(obsList) :
                        i < j => obsList[i].observed_at >= obsList[j].observed_at
        /\ db_insights' # db_insights =>
              /\ AnalyzeInProgress
              /\ \E row \in BagToSet(db_insights') :
                    /\ db_insights' = db_insights (+) SetToBag({row})
                    /\ row.user_id = current_user
                    /\ row.observation_count = Len(observations) ]_vars

\* C16 witness: an analysis for alice returned while bob has a row within
\* the same window.
C16_Witness ==
    /\ pc = "returned" /\ current_user = "alice"
    /\ \E row \in BagToSet(db_observations) :
          row.user_id = "bob" /\ row.observed_at >= cutoff_date

\* C17 (as stated): every stored observation has a department that is not
\* empty and has no whitespace at either end.
C17_DepartmentTrimmedNonEmpty ==
    \A row \in BagToSet(db_observations) :
        /\ row.department # << >>
        /\ ~IsSpace(row.department[1])
        /\ ~IsSpace(row.department[Len(row.department)])

\* C18: no stored observation has a negative patient count or wait; a
\* submission the handler answers with the form again leaves the table as
\* it was, and one with a negative value is answered so, with status 400.
C18_NegativeRejected ==
    [][ /\ \A row \in BagToSet(db_observations') :
              row.number_of_patients >= 0 /\ row.average_wait_minutes >= 0
        /\ (http' # http /\ http'.kind = "template") =>
              /\ db_observations' = db_observations
              /\ http'.target = "queue_form.html"
              /\ (\/ http'.form_data.number_of_patients < 0
                  \/ http'.form_data.average_wait_minutes < 0) => http'.status = 400
        /\ db_observations' # db_observations =>
              /\ http'.kind = "redirect"
              /\ BagCardinality(db_observations') = BagCardinality(db_observations) + 1 ]_vars

\* C18 witness: one row is stored and a submission with a negative wait
\* only was answered 400.
C18_Witness ==
    /\ http.kind = "template" /\ http.status = 400
    /\ http.form_data.number_of_patients >= 0
    /\ http.form_data.average_wait_minutes < 0
    /\ db_observations # EmptyBag

\* C19: there is a bottleneck exactly when the highest-wait department's
\* mean wait is above 60, and then that department is among the bottlenecks;
\* so the text has the bottleneck finding exactly when it has the staffing
\* recommendation.
C19_BottleneckIffStaffing ==
    RuleBasedRan =>
        LET b == analysis.bottleneck_depts
            hw == analysis.hw_dept
        IN  /\ b # << >> <=> MeanWaitAbove(observations, hw, 60)
            /\ b # << >> => hw \in {b[i] : i \in 1..Len(b)}
            /\ Finding3Lead \in Pieces(result.text) <=> StaffingLead \in Pieces(result.text)

\* C19 witness: two departments, only the highest-wait one a bottleneck,
\* and the staffing recommendation names it.
C19_Witness ==
    /\ RuleBasedRan
    /\ Cardinality(DeptsOf(observations)) = 2
    /\ analysis.bottleneck_depts = <<analysis.hw_dept>>
    /\ analysis.hw_dept # observations[1].department
    /\ result.text[PosOf(result.text, StaffingLead) + 1] = analysis.hw_dept

\* C20: a successful analyze request adds exactly one insight row, made of
\* the triple generate_insights returned, the number of observations passed
\* to it, and as date range the observed_at of the last and of the first of
\* them, which are the oldest and the newest.
C20_InsightRecord ==
    [][ /\ (http' # http /\ http'.target = SuccessTarget) =>
              BagCardinality(db_insights') = BagCardinality(db_insights) + 1
        /\ db_insights' # db_insights =>
              /\ pc = "returned"
              /\ http'.target = SuccessTarget
              /\ \E row \in BagToSet(db_insights') :
                    /\ db_insights' = db_insights (+) SetToBag({row})
                    /\ row.insight_text = result.text
                    /\ row.is_ai_generated = result.is_ai_generated
                    /\ row.model_used = result.model_used
                    /\ row.observation_count = Len(observations)
                    /\ row.date_range_start = observations[Len(observations)].observed_at
                    /\ row.date_range_end = observations[1].observed_at
                    /\ \A i \in 1..Len(observations) :
                          /\ row.date_range_start <= observations[i].observed_at
                          /\ observations[i].observed_at <= row.date_range_end ]_vars

\* C20 witness: a stored AI insight over two observations of different days.
C20_Witness ==
    \E row \in BagToSet(db_insights) :
        /\ row.is_ai_generated
        /\ row.observation_count = 2
        /\ row.date_range_start < row.date_range_end

NoObservationsTarget == "/queue-insights?error=no_observations"
FailedTarget == "/queue-insights?error=insight_generation_failed"

\* C21: an analyze request that finds no observations answers with the
\* no_observations redirect without a step of the insights service; one in
\* which the query, the generation or the commit raises rolls the session
\* back and answers with the insight_generation_failed redirect; both leave
\* the stored insights as they were, the insights change only together with
\* the success redirect, every analyze request that got as far as the service
\* ends with one of the two redirects, and no response is ever that of an
\* exception that left the route.
C21_FailureLeavesInsights ==
    [][ /\ (http' # http /\ http'.target = NoObservationsTarget) =>
              /\ pc = "idle"
              /\ UNCHANGED <<locals, db_insights, session_new>>
              /\ http' = RedirectResponse(NoObservationsTarget)
              /\ \E user \in Users, days_back \in DaysBackInputs :
                    << >> \in QueryObservations(db_observations, user, CutoffDate(days_back))
        /\ (http' # http /\ http'.target = FailedTarget) =>
              /\ db_insights' = db_insights
              /\ session_new' = EmptyBag
              /\ http' = RedirectResponse(FailedTarget)
        /\ (session_new # EmptyBag /\ db_insights' = db_insights /\ pc' # pc) =>
              http'.target = FailedTarget
        /\ db_insights' # db_insights => http'.target = SuccessTarget
        /\ (AnalyzeInProgress /\ ~AnalyzeInProgress') =>
              /\ http'.target \in {SuccessTarget, FailedTarget}
              /\ http'.status = HTTP_303_SEE_OTHER
        /\ http'.kind # "unhandled" ]_vars

\* C21 witness: the failure redirect is being answered while observations
\* are stored and no insight is.
C21_Witness ==
    /\ http = RedirectResponse(FailedTarget)
    /\ db_observations # EmptyBag
    /\ db_insights = EmptyBag
    /\ session_new = EmptyBag

\* C22: get_insights_service is a singleton -- at most one
\* QueueInsightsService is ever constructed, and all the calls that have
\* returned, from whatever threads, returned the same instance.
C22_Singleton ==
    /\ constructed <= 1
    /\ \A t, u \in Threads :
          (thread_ret[t] # NoService /\ thread_ret[u] # NoService) => thread_ret[t] = thread_ret[u]

====
